---- MODULE Spec2Model ----
(***************************************************************************)
(* FileSearch.py: directory-scoped text search with context windows.       *)
(*                                                                         *)
(* Two specifications:                                                     *)
(*   Spec      - one run of main(): open the report, enumerate files,      *)
(*               read, match, build and merge the context windows, write   *)
(*               the windows, stop early at the match cap.                 *)
(*   MergeSpec - merge_ranges applied to arbitrary bounded window lists,   *)
(*               and applied again to its own result.                      *)
(***************************************************************************)
EXTENDS Integers, Sequences, FiniteSets, TLC

(* ------------------------------ bounds --------------------------------- *)
MaxFiles == 2      \* files the enumerator yields in one run
MaxLines == 3      \* lines of one file
MaxContext == 1    \* largest --context value explored
MaxCap == 2        \* largest --max-matches value explored
MaxIdx == 2        \* largest line index in a MergeSpec window
MaxRanges == 3     \* longest window list given to merge_ranges in MergeSpec

(* ------------------------------ values --------------------------------- *)
\* Optional values: what a call returns, or that it gave nothing (None / an exception).
None == [ok |-> FALSE, val |-> <<>>]
Some(v) == [ok |-> TRUE, val |-> v]

\* Line texts of the files under root (strings as sequences of characters).
LineTexts == { <<"f","o","o">>, <<"b","a","r">> }

\* The pattern argument: a plain word in both cases, and an unbalanced parenthesis.
Patterns == { <<"b","a">>, <<"B","A">>, <<"(">> }

\* --context is type=int: negative values are accepted by the parser.
Contexts == {-1} \cup (0..MaxContext)

\* --max-matches is type=int, default 0.
Caps == {-1} \cup (0..MaxCap)

\* What the two read_text attempts of read_text_lines can do:
\*   "strict"  the strict utf-8 read succeeds
\*   "lossy"   strict raises UnicodeDecodeError, errors="replace" succeeds
\*   "none"    strict raises UnicodeDecodeError, the fallback raises Exception
\*   "raise"   the strict read raises something else (OSError, ...)
ReadOutcomes == {"strict", "lossy", "none", "raise"}

RECURSIVE SeqsUpTo(_, _)
SeqsUpTo(S, n) ==
    IF n = 0 THEN { <<>> }
    ELSE LET shorter == SeqsUpTo(S, n - 1)
         IN  shorter \cup { Append(q, x) : q \in { t \in shorter : Len(t) = n - 1 }, x \in S }

Max(a, b) == IF a >= b THEN a ELSE b
Min(a, b) == IF a <= b THEN a ELSE b

\* sorted(set) for a finite set of integers
RECURSIVE SortedSeq(_)
SortedSeq(S) ==
    IF S = {} THEN <<>>
    ELSE LET m == CHOOSE x \in S : \A y \in S : x <= y
         IN  <<m>> \o SortedSeq(S \ {m})

Range(q) == { q[k] : k \in DOMAIN q }

(* --------------------------- find_matches ------------------------------ *)
\* str.lower() on the characters in use
LowerChar(c) ==
    CASE c = "B" -> "b"
      [] c = "A" -> "a"
      [] OTHER   -> c

Lower(str) == [k \in DOMAIN str |-> LowerChar(str[k])]

\* needle in hay
Contains(hay, needle) ==
    \E off \in 0..(Len(hay) - Len(needle)) :
        SubSeq(hay, off + 1, off + Len(needle)) = needle

\* re.compile(pattern, flags) succeeds: over these patterns, the parentheses balance
Compiles(pattern) ==
    Cardinality({ k \in DOMAIN pattern : pattern[k] = "(" })
        = Cardinality({ k \in DOMAIN pattern : pattern[k] = ")" })

\* rx.search(line) for a pattern of plain characters; IGNORECASE is a flag of the pattern
Search(pattern, ignore_case, line) ==
    IF ignore_case THEN Contains(Lower(line), Lower(pattern))
    ELSE Contains(line, pattern)

\* one line of the literal branch
LiteralHit(pattern, ignore_case, line) ==
    LET needle == IF ignore_case THEN Lower(pattern) ELSE pattern
        hay    == IF ignore_case THEN Lower(line) ELSE line
    IN  Contains(hay, needle)

\* list(find_matches(...)): the zero-based indices of the matching lines, ascending;
\* None stands for re.error raised by re.compile
find_matches(lns, pattern, use_regex, ignore_case) ==
    IF use_regex
    THEN IF Compiles(pattern)
         THEN Some(SortedSeq({ i \in 0..(Len(lns) - 1) :
                                  Search(pattern, ignore_case, lns[i + 1]) }))
         ELSE None
    ELSE Some(SortedSeq({ i \in 0..(Len(lns) - 1) :
                             LiteralHit(pattern, ignore_case, lns[i + 1]) }))

(* --------------------------- merge_ranges ------------------------------ *)
\* tuple order of Python: by start, then by end
TupleLeq(a, b) == a[1] < b[1] \/ (a[1] = b[1] /\ a[2] <= b[2])

RECURSIVE InsertSorted(_, _)
InsertSorted(q, x) ==
    IF q = <<>> THEN <<x>>
    ELSE IF TupleLeq(x, Head(q)) THEN <<x>> \o q
    ELSE <<Head(q)>> \o InsertSorted(Tail(q), x)

\* ranges.sort()
RECURSIVE SortRanges(_)
SortRanges(q) ==
    IF q = <<>> THEN <<>>
    ELSE InsertSorted(SortRanges(Tail(q)), Head(q))

\* the loop of merge_ranges over rs[k..], merged being the list built so far
RECURSIVE MergeLoop(_, _, _)
MergeLoop(rs, k, merged) ==
    IF k > Len(rs) THEN merged
    ELSE LET s  == rs[k][1]
             e  == rs[k][2]
             ps == merged[Len(merged)][1]
             pe == merged[Len(merged)][2]
         IN  IF s <= pe + 1
             THEN MergeLoop(rs, k + 1, [merged EXCEPT ![Len(merged)] = <<ps, Max(pe, e)>>])
             ELSE MergeLoop(rs, k + 1, Append(merged, <<s, e>>))

\* A slip: the loop runs over ranges instead of ranges[1:].
merge_ranges_from_first(ranges) ==
    IF ranges = <<>> THEN <<>>
    ELSE LET sorted == SortRanges(ranges)
         IN  MergeLoop(sorted, 1, <<sorted[1]>>)

\* A slip: windows are fused only when they overlap (s <= pe), not when adjacent.
RECURSIVE MergeLoopOverlapOnly(_, _, _)
MergeLoopOverlapOnly(rs, k, merged) ==
    IF k > Len(rs) THEN merged
    ELSE LET s  == rs[k][1]
             e  == rs[k][2]
             ps == merged[Len(merged)][1]
             pe == merged[Len(merged)][2]
         IN  IF s <= pe
             THEN MergeLoopOverlapOnly(rs, k + 1, [merged EXCEPT ![Len(merged)] = <<ps, Max(pe, e)>>])
             ELSE MergeLoopOverlapOnly(rs, k + 1, Append(merged, <<s, e>>))

merge_ranges_overlap_only(ranges) ==
    IF ranges = <<>> THEN <<>>
    ELSE LET sorted == SortRanges(ranges)
         IN  MergeLoopOverlapOnly(sorted, 2, <<sorted[1]>>)

merge_ranges(ranges) ==
    IF ranges = <<>> THEN <<>>
    ELSE LET sorted == SortRanges(ranges)
         IN  MergeLoop(sorted, 2, <<sorted[1]>>)

(* ------------------------ main: windows and report --------------------- *)
\* the (s, e) window of one hit
ContextWindow(idx, context, n) ==
    << Max(0, idx - context), Min(n - 1, idx + context) >>

\* "Build context ranges per hit"
BuildRanges(hits, context, n) ==
    [k \in 1..Len(hits) |-> ContextWindow(hits[k], context, n)]

\* A slip: the --no-merge flag is ignored and the windows are always merged.
WindowsToWrite_always_merge(hits, context, n, no_merge) ==
    merge_ranges(BuildRanges(hits, context, n))

\* A slip: the windows are never merged.
WindowsToWrite_never_merge(hits, context, n, no_merge) ==
    BuildRanges(hits, context, n)

\* the list the writing loop iterates
WindowsToWrite(hits, context, n, no_merge) ==
    IF ~no_merge THEN merge_ranges(BuildRanges(hits, context, n))
    ELSE BuildRanges(hits, context, n)

\* match_set of the block (s, e)
MatchSet(hits, s, e) == { i \in Range(hits) : s <= i /\ i <= e }

\* What is written for one block: the MATCH_LINES list and the prefix of every line
\* of range(s, e + 1).
Block(hits, s, e) ==
    [ s           |-> s,
      e           |-> e,
      match_lines |-> [k \in 1..Cardinality(MatchSet(hits, s, e)) |->
                          SortedSeq(MatchSet(hits, s, e))[k] + 1],
      prefixes    |-> [k \in 1..(e - s + 1) |->
                          IF (s + k - 1) \in MatchSet(hits, s, e) THEN ">> " ELSE "   "] ]

(* ------------------------------- state --------------------------------- *)
VARIABLES
    args,           \* the parsed command line
    pc,             \* where main is: "open", "iter", "write", "stopped", "done", "error"
    error,          \* the exception that ended the run: "none", "regex", "io"
    out,            \* the report file: "unopened", "open", "closed"
    lastOut,        \* the last thing written to the report: "nothing", "window", "notice"
    printed,        \* the "Wrote results to" line was printed
    fileNo,         \* files the enumerator has yielded so far
    lines,          \* read_text_lines(path) of the current file: Some(list) or None
    hit_idxs,       \* the matching line indices of the current file
    ranges,         \* the windows the writing loop iterates for the current file
    pos,            \* the next window of ranges to write (1-based)
    written,        \* the blocks written for the current file
    total_matches,  \* the running total
    marked,         \* line indices of the current file written with the ">> " prefix
    markedCount,    \* distinct (file, line) positions written as matches in the run
    seenMatches,    \* matching lines of the files processed so far
    input,          \* MergeSpec: the list given to merge_ranges
    merged,         \* MergeSpec: merge_ranges(input)
    remerged,       \* MergeSpec: merge_ranges(merged)
    mpc             \* MergeSpec: "idle", "new", "merged", "remerged"

mainVars == << args, pc, error, out, lastOut, printed, fileNo, lines, hit_idxs, ranges,
               pos, written, total_matches, marked, markedCount, seenMatches >>
mergeVars == << input, merged, remerged, mpc >>
vars == << mainVars, mergeVars >>

Args == [ context : Contexts, no_merge : BOOLEAN, max_matches : Caps,
          use_regex : BOOLEAN, ignore_case : BOOLEAN, pattern : Patterns ]

FileContents == SeqsUpTo(LineTexts, MaxLines)

(* ------------------------------- main ---------------------------------- *)
\* after parse_args, before the report is opened
MainInit ==
    /\ args \in Args
    /\ pc = "open"
    /\ error = "none"
    /\ out = "unopened"
    /\ lastOut = "nothing"
    /\ printed = FALSE
    /\ fileNo = 0
    /\ lines = Some(<<>>)
    /\ hit_idxs = <<>>
    /\ ranges = <<>>
    /\ pos = 1
    /\ written = <<>>
    /\ total_matches = 0
    /\ marked = {}
    /\ markedCount = 0
    /\ seenMatches = 0

MergeIdle ==
    /\ input = <<>>
    /\ merged = <<>>
    /\ remerged = <<>>
    /\ mpc = "idle"

\* with open(args.out, "w"): the report is created or truncated
OpenOut ==
    /\ pc = "open"
    /\ pc' = "iter"
    /\ out' = "open"
    /\ UNCHANGED << args, error, lastOut, printed, fileNo, lines, hit_idxs, ranges, pos,
                    written, total_matches, marked, markedCount, seenMatches >>
    /\ UNCHANGED mergeVars

\* One pass of "for path in iter_files(...)" up to the writing loop: the enumerator
\* yields a file, it is read, matched, and its windows are built.
NextFile ==
    /\ pc = "iter"
    /\ fileNo < MaxFiles
    /\ fileNo' = fileNo + 1
    /\ written' = <<>>
    /\ marked' = {}
    /\ pos' = 1
    /\ UNCHANGED << args, lastOut, printed, total_matches, markedCount >>
    /\ \E outcome \in ReadOutcomes :
        CASE outcome = "raise" ->
               \* not a UnicodeDecodeError: nothing catches it, the with block
               \* closes the report and main ends with the exception
               /\ pc' = "error"
               /\ error' = "io"
               /\ out' = "closed"
               /\ UNCHANGED << lines, hit_idxs, ranges, seenMatches >>
          [] outcome = "none" ->
               \* lines is None: continue
               /\ lines' = None
               /\ pc' = "iter"
               /\ UNCHANGED << error, out, hit_idxs, ranges, seenMatches >>
          [] OTHER ->
               \E content \in FileContents :
                   LET found == find_matches(content, args.pattern, args.use_regex,
                                             args.ignore_case)
                       hits  == found.val
                   IN  /\ lines' = Some(content)
                       /\ IF ~found.ok
                          THEN \* re.error from re.compile
                               /\ pc' = "error"
                               /\ error' = "regex"
                               /\ out' = "closed"
                               /\ UNCHANGED << hit_idxs, ranges, seenMatches >>
                          ELSE /\ hit_idxs' = hits
                               /\ seenMatches' = seenMatches + Len(hits)
                               /\ UNCHANGED << error, out >>
                               /\ IF hits = <<>>
                                  THEN \* not hit_idxs: continue
                                       /\ pc' = "iter"
                                       /\ UNCHANGED ranges
                                  ELSE /\ ranges' = WindowsToWrite(hits, args.context,
                                                                   Len(content), args.no_merge)
                                       /\ pc' = "write"
    /\ UNCHANGED mergeVars

\* One pass of "for (s, e) in ranges": the block is written, the total is raised and
\* the cap is tested.
WriteWindow ==
    /\ pc = "write"
    /\ pos <= Len(ranges)
    /\ LET s == ranges[pos][1]
           e == ranges[pos][2]
           match_set == MatchSet(hit_idxs, s, e)
           total == total_matches + Cardinality(match_set)
       IN  /\ written' = Append(written, Block(hit_idxs, s, e))
           /\ marked' = marked \cup match_set
           /\ markedCount' = markedCount + Cardinality(match_set \ marked)
           /\ total_matches' = total
           /\ pos' = pos + 1
           /\ IF args.max_matches # 0 /\ total >= args.max_matches
              THEN \* "Stopped early" is written, return closes the report
                   /\ lastOut' = "notice"
                   /\ pc' = "stopped"
                   /\ out' = "closed"
              ELSE /\ lastOut' = "window"
                   /\ pc' = "write"
                   /\ UNCHANGED out
    /\ UNCHANGED << args, error, printed, fileNo, lines, hit_idxs, ranges, seenMatches >>
    /\ UNCHANGED mergeVars

\* "for (s, e) in ranges" is exhausted: back to the loop over the files. The locals of
\* the finished file are dead until the next pass assigns them; they are cleared here.
EndFile ==
    /\ pc = "write"
    /\ pos > Len(ranges)
    /\ pc' = "iter"
    /\ lines' = Some(<<>>)
    /\ hit_idxs' = <<>>
    /\ ranges' = <<>>
    /\ pos' = 1
    /\ written' = <<>>
    /\ marked' = {}
    /\ UNCHANGED << args, error, out, lastOut, printed, fileNo, total_matches, markedCount,
                    seenMatches >>
    /\ UNCHANGED mergeVars

\* The enumerator is exhausted: the with block closes the report and the confirmation
\* is printed.
Finish ==
    /\ pc = "iter"
    /\ pc' = "done"
    /\ out' = "closed"
    /\ printed' = TRUE
    /\ UNCHANGED << args, error, lastOut, fileNo, lines, hit_idxs, ranges, pos, written,
                    total_matches, marked, markedCount, seenMatches >>
    /\ UNCHANGED mergeVars

Init == MainInit /\ MergeIdle

Next == OpenOut \/ NextFile \/ WriteWindow \/ EndFile \/ Finish

Spec == Init /\ [][Next]_vars

(* --------------------------- merge_ranges alone ------------------------ *)
\* every (s, e) over the indices, s > e included: main builds such windows when
\* --context is negative
Windows == (0..MaxIdx) \X (0..MaxIdx)

MainIdle ==
    /\ args = [ context |-> 0, no_merge |-> FALSE, max_matches |-> 0,
                use_regex |-> FALSE, ignore_case |-> FALSE, pattern |-> <<"b","a">> ]
    /\ pc = "idle"
    /\ error = "none"
    /\ out = "unopened"
    /\ lastOut = "nothing"
    /\ printed = FALSE
    /\ fileNo = 0
    /\ lines = Some(<<>>)
    /\ hit_idxs = <<>>
    /\ ranges = <<>>
    /\ pos = 1
    /\ written = <<>>
    /\ total_matches = 0
    /\ marked = {}
    /\ markedCount = 0
    /\ seenMatches = 0

MergeInit ==
    /\ MainIdle
    /\ input \in SeqsUpTo(Windows, MaxRanges)
    /\ merged = <<>>
    /\ remerged = <<>>
    /\ mpc = "new"

Merge ==
    /\ mpc = "new"
    /\ merged' = merge_ranges(input)
    /\ mpc' = "merged"
    /\ UNCHANGED << input, remerged >>
    /\ UNCHANGED mainVars

Remerge ==
    /\ mpc = "merged"
    /\ remerged' = merge_ranges(merged)
    /\ mpc' = "remerged"
    /\ UNCHANGED << input, merged >>
    /\ UNCHANGED mainVars

MergeNext == Merge \/ Remerge

MergeSpec == MergeInit /\ [][MergeNext]_vars

(* ============================== claims ================================= *)
InvalidRegex == args.use_regex /\ ~Compiles(args.pattern)

\* the loop over the windows of the current file has run to its end
FileWritten == pc = "write" /\ pos > Len(ranges)

\* the run has ended, one way or another
Ended == pc \in {"stopped", "done", "error"}

ValidWindows(q) == \A k \in DOMAIN q : q[k][1] <= q[k][2]

Covered(q) == UNION { q[k][1]..q[k][2] : k \in DOMAIN q }

(* ------------------------------- C1 ------------------------------------ *)
\* C1: with --max-matches=N, N > 0, the number of matches written never exceeds N,
\* and a run over files holding at least N matches ends with exactly N matches
\* written and the "Stopped early" notice.
C1_MatchCap ==
    args.max_matches > 0 =>
        /\ markedCount <= args.max_matches
        /\ (pc \in {"stopped", "done"} /\ seenMatches >= args.max_matches) =>
               (markedCount = args.max_matches /\ lastOut = "notice")

(* ------------------------------- C2 ------------------------------------ *)
\* C2: with --regex and a pattern that does not compile, nothing is done to the
\* output destination, no file is read, and the run does not complete normally.
C2_RegexFailFast ==
    InvalidRegex => (out = "unopened" /\ fileNo = 0 /\ ~printed)

(* ------------------------------- C3 ------------------------------------ *)
\* C3: for windows with start <= end, merge_ranges covers exactly the indices its
\* input covers, its output is sorted by start, consecutive output windows
\* (s1,e1),(s2,e2) have s2 > e1 + 1, and empty input gives empty output.
C3_MergeRanges ==
    (mpc \in {"merged", "remerged"} /\ ValidWindows(input)) =>
        /\ Covered(merged) = Covered(input)
        /\ \A k \in 1..(Len(merged) - 1) :
               /\ merged[k][1] <= merged[k + 1][1]
               /\ merged[k + 1][1] > merged[k][2] + 1
        /\ (input = <<>> => merged = <<>>)

\* C3 witness: three windows given out of order, two of them fused, one kept apart
C3_Witness ==
    /\ mpc = "merged"
    /\ ValidWindows(input)
    /\ Len(input) = 3
    /\ input # SortRanges(input)
    /\ Len(merged) = 2

(* ------------------------------- C4 ------------------------------------ *)
\* C4: whenever reading the enumerated file fails (read_text_lines gives None, or
\* a read attempt raises), no exception reaches main, nothing is written, the
\* running total is unchanged and the run continues with the next file.
C4_ReadFailureSkipsFile ==
    [][ (pc = "iter" /\ fileNo' = fileNo + 1 /\ (~lines'.ok \/ error' = "io")) =>
            /\ error' = "none"
            /\ pc' = "iter"
            /\ total_matches' = total_matches
            /\ lastOut' = lastOut
            /\ written' = <<>> ]_vars

(* ------------------------------- C5 ------------------------------------ *)
\* C5: the window (s, e) built for every match index of the current file satisfies
\* 0 <= s <= e <= lineCount - 1, for every --context value the parser accepts.
C5_WindowInBounds ==
    (lines.ok /\ pc \in {"write", "stopped"}) =>
        \A k \in DOMAIN hit_idxs :
            LET w == ContextWindow(hit_idxs[k], args.context, Len(lines.val))
            IN  0 <= w[1] /\ w[1] <= w[2] /\ w[2] <= Len(lines.val) - 1

(* ------------------------------- C6 ------------------------------------ *)
\* C6: the running total equals the number of distinct matched positions
\* (file, line index) written so far, with and without --no-merge.
C6_RunningTotal ==
    total_matches = markedCount

(* ------------------------------- C7 ------------------------------------ *)
\* C7: when a maximum is configured and the total reaches it after a window is
\* written, the notice is written next and last, nothing more is processed and the
\* confirmation is not printed; when the maximum is 0 the notice is never written
\* and the run ends only when every enumerated file has been processed (a run that
\* aborts on a pattern that does not compile is left aside).
C7_EarlyStop ==
    [][ /\ (args.max_matches # 0 /\ pc = "write" /\ pos' = pos + 1
              /\ total_matches' >= args.max_matches) =>
                (lastOut' = "notice" /\ pc' = "stopped" /\ ~printed')
        /\ pc # "stopped"
        /\ args.max_matches = 0 => lastOut' # "notice"
        /\ (args.max_matches = 0 /\ ~InvalidRegex /\ Ended') => pc' = "done" ]_vars

\* The part of C7 about the cap alone: it holds of every step.
EarlyStopOrdering ==
    [][ /\ (args.max_matches # 0 /\ pc = "write" /\ pos' = pos + 1
              /\ total_matches' >= args.max_matches) =>
                (lastOut' = "notice" /\ pc' = "stopped" /\ ~printed')
        /\ pc # "stopped"
        /\ args.max_matches = 0 => (lastOut' # "notice" /\ pc' # "stopped") ]_vars

(* ------------------------------- C8 ------------------------------------ *)
\* the (s, e) pairs of the blocks written for the current file
WrittenWindows == [k \in DOMAIN written |-> << written[k].s, written[k].e >>]

\* the per-match windows of the current file, in match order
PerMatchWindows ==
    [k \in DOMAIN hit_idxs |-> ContextWindow(hit_idxs[k], args.context, Len(lines.val))]

\* C8 as stated: with --no-merge, once the writing of a file has ended, the windows
\* written for it are exactly the per-match windows, one per match (stated here for
\* a non-negative context and a non-negative cap, where it already fails).
C8_NoMergeAllWritten ==
    (args.no_merge /\ args.context >= 0 /\ args.max_matches >= 0 /\ lines.ok
        /\ (FileWritten \/ pc = "stopped")) =>
            WrittenWindows = PerMatchWindows

\* C8 amended: with --no-merge the windows the writer iterates are exactly the
\* per-match windows in ascending match order, unsorted and unfused; the windows
\* written so far are the first of them, in that order, and all of them once the
\* loop over the file's windows has run to its end (the match cap may end the run
\* before that).
C8_NoMergePrefix ==
    (args.no_merge /\ lines.ok /\ pc \in {"write", "stopped"}) =>
        /\ ranges = PerMatchWindows
        /\ \A k \in 1..(Len(hit_idxs) - 1) : hit_idxs[k] < hit_idxs[k + 1]
        /\ Len(written) = pos - 1
        /\ Len(written) <= Len(PerMatchWindows)
        /\ WrittenWindows = SubSeq(PerMatchWindows, 1, Len(written))
        /\ FileWritten => WrittenWindows = PerMatchWindows

\* C8 witness: two coinciding windows, both written
C8_Witness ==
    /\ args.no_merge
    /\ FileWritten
    /\ Len(written) = 2
    /\ WrittenWindows[1] = WrittenWindows[2]

(* ------------------------------- C9 ------------------------------------ *)
\* C9: merge_ranges(merge_ranges(R)) = merge_ranges(R) for every list R.
C9_MergeIdempotent ==
    mpc = "remerged" => remerged = merged

\* C9 witness: a merge that fused some windows and kept two apart, merged again
C9_Witness ==
    /\ mpc = "remerged"
    /\ Len(input) = 3
    /\ Len(merged) = 2

(* ------------------------------- C10 ----------------------------------- *)
\* the blocks written for the current file whose window holds line index i
BlocksHolding(i) == { k \in DOMAIN written : written[k].s <= i /\ i <= written[k].e }

\* how many times line index i was written with the ">> " prefix
TimesMarked(i) ==
    Cardinality({ k \in BlocksHolding(i) : written[k].prefixes[i - written[k].s + 1] = ">> " })

\* how many MATCH_LINES entries name line index i
TimesListed(i) ==
    Cardinality({ c \in UNION { { << k, j >> : j \in DOMAIN written[k].match_lines } :
                                  k \in DOMAIN written } :
                    written[c[1]].match_lines[c[2]] = i + 1 })

\* C10: merging on, context >= 0, no cap: every written window holds a match; once
\* a file's windows are written every match index lies in exactly one of them and
\* is listed and marked exactly once; between files and at the end of the run the
\* running total is the number of matching lines of the files processed.
C10_EachMatchOnce ==
    (~args.no_merge /\ args.context >= 0 /\ args.max_matches = 0) =>
        /\ \A k \in DOMAIN written : written[k].match_lines # <<>>
        /\ FileWritten =>
               \A i \in Range(hit_idxs) :
                   /\ Cardinality(BlocksHolding(i)) = 1
                   /\ TimesMarked(i) = 1
                   /\ TimesListed(i) = 1
        /\ pc \in {"iter", "done", "error"} => total_matches = seenMatches

\* C10 witness: a file with two matches in two windows, fully written
C10_Witness ==
    /\ ~args.no_merge /\ args.context >= 0 /\ args.max_matches = 0
    /\ FileWritten
    /\ Len(written) = 2
    /\ Len(hit_idxs) = 2

====
